---- MODULE Spec2Model ----
(***************************************************************************)
(* Model of the A2A multi-agent orchestrator                               *)
(* (multi-agents-orchestrations/gh-copilot-a2a-orchestration/main.py):     *)
(* AgentInfo.matches_task, MultiAgentOrchestrator.discover_agent,          *)
(* discover_all_agents, select_agent, send_task and list_agents, of its    *)
(* drivers main and interactive_mode, and of the event stream of the two   *)
(* agents (process_a2a_message_streaming).                                 *)
(*                                                                         *)
(* Strings are sequences of one-character strings.  Python floats are IEEE *)
(* doubles; every score the program computes is a multiple of 2^-55 below  *)
(* 8 in magnitude, so a double is held as the integer n of n * 2^-55,      *)
(* split in two limbs [h, l] with n = h * 2^29 + l and 0 <= l < 2^29.      *)
(* Optional values are sequences: <<>> is None and <<x>> is x.             *)
(***************************************************************************)
EXTENDS Integers, Sequences, FiniteSets, TLC

(***************************************************************************)
(* Bounds of the model.                                                    *)
(***************************************************************************)
\* total number of card fetches over all discover_all_agents calls
MaxFetches == 3

\* the deltas a streamed task delivers at most
MaxChunks == 2

\* the heartbeats sent while a streamed task is still running
MaxHeartbeats == 2

(***************************************************************************)
(* IEEE-754 double arithmetic (round to nearest, ties to even).            *)
(***************************************************************************)
LimbBase == 2^29

F(h, l) == [h |-> h, l |-> l]

F_0_0 == F(0, 0)
F_1_0 == F(67108864, 0)
F_0_5 == F(33554432, 0)
F_0_3 == F(20132659, 107374182)
F_0_2 == F(13421772, 429496730)
F_0_15 == F(10066329, 322122547)
F_0_25 == F(16777216, 0)
F_0_1 == F(6710886, 214748365)

FNeg(x) ==
    IF x.l = 0 THEN F(-x.h, 0) ELSE F(-x.h - 1, LimbBase - x.l)

FLess(x, y) == x.h < y.h \/ (x.h = y.h /\ x.l < y.l)

FExactAdd(x, y) ==
    LET s == x.l + y.l
    IN F(x.h + y.h + (s \div LimbBase), s % LimbBase)

\* quantum (in units of 2^-55) of the binade of a non-negative magnitude m
FQuantum(m) ==
    IF m.h < 16777216 THEN 1
    ELSE IF m.h < 33554432 THEN 2
    ELSE IF m.h < 67108864 THEN 4
    ELSE IF m.h < 134217728 THEN 8
    ELSE IF m.h < 268435456 THEN 16
    ELSE 32

\* round a non-negative exact value to 53 significant bits, ties to even
FRoundMag(m) ==
    LET q == FQuantum(m)
        r == m.l % q
        down == m.l - r
        roundUp == (2 * r > q) \/ (2 * r = q /\ (down \div q) % 2 = 1)
        nl == IF roundUp THEN down + q ELSE down
    IN IF nl = LimbBase THEN F(m.h + 1, 0) ELSE F(m.h, nl)

\* (the operands are bound by a quantifier so that each is evaluated once)
FRound(x) ==
    CHOOSE r \in {IF v.h < 0 THEN FNeg(FRoundMag(FNeg(v))) ELSE FRoundMag(v) : v \in {x}} : TRUE

FAdd(x, y) == FRound(CHOOSE e \in {FExactAdd(a, b) : a \in {x}, b \in {y}} : TRUE)

FSub(x, y) == FRound(CHOOSE e \in {FExactAdd(a, FNeg(b)) : a \in {x}, b \in {y}} : TRUE)

\* python: min(x, y) and max(x, y) of two floats (the first argument wins ties)
FMin(x, y) == IF FLess(y, x) THEN y ELSE x

FMax(x, y) == IF FLess(x, y) THEN y ELSE x

\* x added n times to acc, one rounded addition each: for ...: score += x
RECURSIVE FAddTimes(_, _, _)
FAddTimes(acc, x, n) == IF n = 0 THEN acc ELSE FAddTimes(FAdd(acc, x), x, n - 1)

(***************************************************************************)
(* Strings: sequences of one-character strings.                            *)
(***************************************************************************)
UpperLetters ==
    <<"A", "B", "C", "D", "E", "F", "G", "H", "I", "J", "K", "L", "M",
      "N", "O", "P", "Q", "R", "S", "T", "U", "V", "W", "X", "Y", "Z">>

LowerLetters ==
    <<"a", "b", "c", "d", "e", "f", "g", "h", "i", "j", "k", "l", "m",
      "n", "o", "p", "q", "r", "s", "t", "u", "v", "w", "x", "y", "z">>

Digits == {"0", "1", "2", "3", "4", "5", "6", "7", "8", "9"}

LowerOfUpper ==
    [c \in {UpperLetters[i] : i \in 1..26} |->
        LowerLetters[CHOOSE i \in 1..26 : UpperLetters[i] = c]]

\* str.lower() on one character
Lower(c) == IF c \in DOMAIN LowerOfUpper THEN LowerOfUpper[c] ELSE c

\* The(S) is the element of the singleton S; The({e(v) : v \in {x}}) is e(x)
\* with x evaluated once
The(S) == CHOOSE v \in S : TRUE

\* str.lower()
LowerStr(s) == [i \in 1..Len(s) |-> Lower(s[i])]

\* python: needle in hay (substring test; the empty string is in every string)
Contains(needle, hay) ==
    \E n \in {needle}, h \in {hay} :
        \E i \in 0..(Len(h) - Len(n)) : \A j \in 1..Len(n) : h[i + j] = n[j]

\* str.replace(old, new) for single characters
ReplaceChar(s, old, new) == [i \in 1..Len(s) |-> IF s[i] = old THEN new ELSE s[i]]

IsSpace(c) == c \in {" ", "\n", "\t"}

\* \w of the regular expression: letters, digits and the underscore
WordChars ==
    {UpperLetters[i] : i \in 1..26} \cup {LowerLetters[i] : i \in 1..26}
        \cup Digits \cup {"_"}

IsWordChar(c) == c \in WordChars

\* maximal runs of the characters of a class ("word": \w, "nonspace": not
\* whitespace), in order: cur is the run being read, out the closed runs
InClass(c, cls) == IF cls = "word" THEN IsWordChar(c) ELSE ~IsSpace(c)

RECURSIVE Runs(_, _, _, _, _)
Runs(s, i, cur, out, cls) ==
    IF i > Len(s) THEN (IF cur = <<>> THEN out ELSE Append(out, cur))
    ELSE IF InClass(s[i], cls) THEN Runs(s, i + 1, Append(cur, s[i]), out, cls)
    ELSE Runs(s, i + 1, <<>>, IF cur = <<>> THEN out ELSE Append(out, cur), cls)

\* str.split() with no argument: split on runs of whitespace
SplitWhitespace(s) == Runs(s, 1, <<>>, <<>>, "nonspace")

\* re.findall(r'\b\w+\b', s): the maximal runs of word characters
FindWords(s) == Runs(s, 1, <<>>, <<>>, "word")

\* "\n".join(texts)
RECURSIVE JoinNewline(_)
JoinNewline(texts) ==
    IF texts = <<>> THEN <<>>
    ELSE IF Len(texts) = 1 THEN texts[1]
    ELSE texts[1] \o <<"\n">> \o JoinNewline(Tail(texts))

\* the string literals of matches_task
GenericTags == {<<"t", "e", "c", "h", "n", "i", "c", "a", "l">>, <<"t", "u", "t", "o", "r", "i", "a", "l">>, <<"g", "u", "i", "d", "e">>, <<"c", "o", "d", "e">>, <<"e", "x", "a", "m", "p", "l", "e", "s">>}

NameStopWords == {<<"a", "g", "e", "n", "t">>, <<"t", "h", "e">>, <<"a">>}

(***************************************************************************)
(* Python values.                                                          *)
(***************************************************************************)
None == <<>>

Some(x) == <<x>>

\* a dict is the sequence of its values in insertion order; here the values
\* are records keyed by their name field (self.agents[info.name] = info)
DictHas(d, name) == \E i \in 1..Len(d) : d[i].name = name

DictGet(d, name) == d[CHOOSE i \in 1..Len(d) : d[i].name = name]

\* an insertion that keeps the entry already stored under the name
DictSet_keep_first(d, v) == IF DictHas(d, v.name) THEN d ELSE Append(d, v)

\* a mapping of at most two entries: a third key evicts the second
DictSet_capped(d, v) ==
    IF DictHas(d, v.name)
    THEN [i \in 1..Len(d) |-> IF d[i].name = v.name THEN v ELSE d[i]]
    ELSE IF Len(d) >= 2 THEN <<d[1], v>>
    ELSE Append(d, v)

\* d[v.name] = v: an existing key keeps its position, a new key goes last
DictSet(d, v) ==
    IF DictHas(d, v.name)
    THEN [i \in 1..Len(d) |-> IF d[i].name = v.name THEN v ELSE d[i]]
    ELSE Append(d, v)

(***************************************************************************)
(* AgentInfo.matches_task                                                  *)
(***************************************************************************)
\* a keyword step that tests the keywords as they are declared
RECURSIVE KeywordLoop_as_declared(_, _, _)
KeywordLoop_as_declared(score, keywords, task_lower) ==
    IF keywords = <<>> THEN score
    ELSE KeywordLoop_as_declared(IF Contains(Head(keywords), task_lower)
                                 THEN FAdd(score, F_0_5) ELSE score,
                                 Tail(keywords), task_lower)

\* for keyword in self.primary_keywords: ... score += 0.5
RECURSIVE KeywordLoop(_, _, _)
KeywordLoop(score, keywords, task_lower) ==
    IF keywords = <<>> THEN score
    ELSE KeywordLoop(IF Contains(LowerStr(Head(keywords)), task_lower)
                     THEN FAdd(score, F_0_5) ELSE score,
                     Tail(keywords), task_lower)

\* a penalty step that subtracts nothing
OtherKeywordLoop_none(score, keywords, task_lower) == score

\* for keyword in other_keywords: ... score -= 0.3
RECURSIVE OtherKeywordLoop(_, _, _)
OtherKeywordLoop(score, keywords, task_lower) ==
    IF keywords = <<>> THEN score
    ELSE OtherKeywordLoop(IF Contains(LowerStr(Head(keywords)), task_lower)
                          THEN FSub(score, F_0_3) ELSE score,
                          Tail(keywords), task_lower)

\* for other_agent, other_keywords in all_agents_keywords.items(): ...
RECURSIVE PenaltyLoop(_, _, _, _)
PenaltyLoop(score, self_name, items, task_lower) ==
    IF items = <<>> THEN score
    ELSE PenaltyLoop(IF Head(items).name # self_name
                     THEN OtherKeywordLoop(score, Head(items).keywords, task_lower)
                     ELSE score,
                     self_name, Tail(items), task_lower)

\* for tag in self.tags: ... score += 0.2 (self.tags is list(set(...)): the
\* tags are distinct and every matching tag adds the same constant)
TagLoop(score, tags, task_lower) ==
    FAddTimes(score, F_0_2,
              Cardinality({t \in tags : /\ LowerStr(t) \notin GenericTags
                                        /\ Contains(LowerStr(t), task_lower)}))

\* for kw in skill_keywords: if len(kw) > 3 and kw in task_lower: score += 0.15
RECURSIVE SkillKeywordLoop(_, _, _)
SkillKeywordLoop(score, kws, task_lower) ==
    IF kws = <<>> THEN score
    ELSE SkillKeywordLoop(IF Len(Head(kws)) > 3 /\ Contains(Head(kws), task_lower)
                          THEN FAdd(score, F_0_15) ELSE score,
                          Tail(kws), task_lower)

\* for skill in self.skills: ...
RECURSIVE SkillLoop(_, _, _)
SkillLoop(score, skills, task_lower) ==
    IF skills = <<>> THEN score
    ELSE LET skill_id == LowerStr(Head(skills).id)
             skill_keywords == SplitWhitespace(ReplaceChar(skill_id, "_", " "))
         IN SkillLoop(IF skill_id # <<>>
                      THEN SkillKeywordLoop(score, skill_keywords, task_lower)
                      ELSE score,
                      Tail(skills), task_lower)

\* for part in name_parts: ... score += 0.25
RECURSIVE NameLoop(_, _, _)
NameLoop(score, parts, task_lower) ==
    IF parts = <<>> THEN score
    ELSE NameLoop(IF Head(parts) \notin NameStopWords /\ Contains(Head(parts), task_lower)
                  THEN FAdd(score, F_0_25) ELSE score,
                  Tail(parts), task_lower)

\* all_agents_keywords is a sequence of [name, keywords] (dict items); <<>>
\* stands for None and for the empty dict
\* matches_task returning the accumulated score without the final clamp
MatchesTaskLower_unclamped(self, task_lower, all_agents_keywords) ==
    LET s1 == KeywordLoop(F_0_0, self.primary_keywords, task_lower)
        s2 == IF all_agents_keywords # <<>>
              THEN PenaltyLoop(s1, self.name, all_agents_keywords, task_lower)
              ELSE s1
        s3 == TagLoop(s2, self.tags, task_lower)
        s4 == SkillLoop(s3, self.skills, task_lower)
    IN NameLoop(s4, FindWords(LowerStr(self.name)), task_lower)

MatchesTaskLower(self, task_lower, all_agents_keywords) ==
    LET s1 == KeywordLoop(F_0_0, self.primary_keywords, task_lower)
        s2 == IF all_agents_keywords # <<>>
              THEN PenaltyLoop(s1, self.name, all_agents_keywords, task_lower)
              ELSE s1
        s3 == TagLoop(s2, self.tags, task_lower)
        s4 == SkillLoop(s3, self.skills, task_lower)
        s5 == NameLoop(s4, FindWords(LowerStr(self.name)), task_lower)
    IN The({FMax(F_0_0, FMin(score, F_1_0)) : score \in {s5}})

\* a scoring that tests the keywords against the task as it was typed
matches_task_as_typed(self, task, all_agents_keywords) ==
    The({MatchesTaskLower(me, t, others) :
           me \in {self}, t \in {task}, others \in {all_agents_keywords}})

\* task_lower = task.lower(), then the five steps and the clamp
matches_task(self, task, all_agents_keywords) ==
    The({MatchesTaskLower(me, task_lower, others) :
           me \in {self}, task_lower \in {LowerStr(task)}, others \in {all_agents_keywords}})

(***************************************************************************)
(* MultiAgentOrchestrator.select_agent                                     *)
(***************************************************************************)
\* list.sort(key=lambda x: x[1], reverse=True): stable, descending by score
\* an unstable sort: an element goes before the elements of equal score
RECURSIVE InsertDesc_unstable(_, _)
InsertDesc_unstable(sorted, x) ==
    IF sorted = <<>> THEN <<x>>
    ELSE IF ~FLess(x.score, Head(sorted).score) THEN <<x>> \o sorted
    ELSE <<Head(sorted)>> \o InsertDesc_unstable(Tail(sorted), x)

RECURSIVE InsertDesc(_, _)
InsertDesc(sorted, x) ==
    IF sorted = <<>> THEN <<x>>
    ELSE IF FLess(Head(sorted).score, x.score) THEN <<x>> \o sorted
    ELSE <<Head(sorted)>> \o InsertDesc(Tail(sorted), x)

RECURSIVE SortDesc(_, _)
SortDesc(sorted, rest) ==
    IF rest = <<>> THEN sorted
    ELSE SortDesc(InsertDesc(sorted, Head(rest)), Tail(rest))

\* {name: info.primary_keywords for name, info in self.agents.items()}
AllAgentsKeywords(registry) ==
    [i \in 1..Len(registry) |->
        [name |-> registry[i].name, keywords |-> registry[i].primary_keywords]]

\* the list scores of select_agent, before the sort
Scores(registry, task) ==
    The({[i \in 1..Len(registry) |->
            [name |-> registry[i].name,
             score |-> matches_task(registry[i], task, all_agents_keywords)]] :
         all_agents_keywords \in {AllAgentsKeywords(registry)}})

MatchThreshold == F_0_1

\* the sorted list scores of select_agent (empty when it returns at once)
SortedScores(registry, task) ==
    IF registry = <<>> THEN <<>> ELSE SortDesc(<<>>, Scores(registry, task))

\* a selection that ignores the scores: the default agent, if any
select_agent_default_only(registry, default, task) ==
    IF registry = <<>> \/ default = None THEN None ELSE default

\* the name of the returned AgentInfo, or None, given the sorted scores;
\* default is self.default_agent (None, or Some(name): the empty name is falsy)
SelectFromScores(registry, default, sorted) ==
    IF registry = <<>> THEN None
    ELSE LET best_agent == sorted[1].name
             best_score == sorted[1].score
         IN IF FLess(MatchThreshold, best_score) THEN Some(best_agent)
            ELSE IF default # None /\ default[1] # <<>> THEN Some(default[1])
            ELSE None

select_agent(registry, default, task) ==
    The({SelectFromScores(registry, default, sorted) :
           sorted \in {SortedScores(registry, task)}})

(***************************************************************************)
(* The environment: the hosts, the agent card each one serves, the tasks   *)
(* and explicit agent names a caller passes, and what an agent answers.    *)
(***************************************************************************)
s_blog_agent == <<"b", "l", "o", "g", "_", "a", "g", "e", "n", "t">>

s_ppt_agent == <<"p", "p", "t", "_", "a", "g", "e", "n", "t">>

s_the_helper == <<"T", "h", "e", " ", "H", "e", "l", "p", "e", "r">>

s_nobody == <<"n", "o", "b", "o", "d", "y">>

s_blog == <<"b", "l", "o", "g">>

s_article == <<"a", "r", "t", "i", "c", "l", "e">>

s_ppt == <<"p", "p", "t">>

s_slides == <<"s", "l", "i", "d", "e", "s">>

s_code == <<"c", "o", "d", "e">>

s_writing == <<"w", "r", "i", "t", "i", "n", "g">>

s_technical == <<"t", "e", "c", "h", "n", "i", "c", "a", "l">>

s_deck == <<"d", "e", "c", "k">>

s_blog_generation ==
    <<"b", "l", "o", "g", "_", "g", "e", "n", "e", "r", "a", "t", "i", "o",
      "n">>

s_ppt_generation ==
    <<"p", "p", "t", "_", "g", "e", "n", "e", "r", "a", "t", "i", "o", "n">>

t_write_blog ==
    <<"w", "r", "i", "t", "e", " ", "a", " ", "b", "l", "o", "g", " ", "a",
      "b", "o", "u", "t", " ", "X">>

t_create_ppt ==
    <<"C", "r", "e", "a", "t", "e", " ", "a", " ", "P", "P", "T", " ", "a",
      "b", "o", "u", "t", " ", "K", "u", "b", "e", "r", "n", "e", "t", "e",
      "s">>

t_three_domains ==
    <<"b", "l", "o", "g", " ", "p", "p", "t", " ", "c", "o", "d", "e", " ",
      "d", "e", "c", "k">>

t_hello == <<"h", "e", "l", "l", "o">>

t_code_review == <<"c", "o", "d", "e", " ", "r", "e", "v", "i", "e", "w">>

t_blog_article ==
    <<"b", "l", "o", "g", " ", "a", "r", "t", "i", "c", "l", "e", " ",
      "w", "r", "i", "t", "i", "n", "g">>

s_hi == <<"h", "i">>

s_a == <<"a">>

s_b == <<"b">>

\* an agent card as the resolver parses it.  primary_keywords and
\* primaryKeywords are the attributes of those names (None: no attribute),
\* model_extra and dict are the items of agent_card.model_extra and
\* agent_card.__dict__ that matter (key "primaryKeywords", or another key)
Card(name, skills, snake, camel, extra, dict) ==
    [name |-> name, skills |-> skills, primary_keywords |-> snake,
     primaryKeywords |-> camel, model_extra |-> extra, dict |-> dict]

Skill(id, tags) == [id |-> id, tags |-> tags]

Item(key, value) == [key |-> key, value |-> value]

\* hblog and hppt serve the cards of the two shipped agents (keywords in
\* model_extra and as attribute), hdup serves a second card named blog_agent
\* (an empty primary_keywords, extra fields without the keywords), hhelper a
\* card whose name has two words and whose keywords are only in __dict__,
\* hanon a card whose name is the empty string and that has both attributes
\* (hblog_only and hppt_only, of the two-agent scenario below, serve cards
\* with a name and the one keyword blog or ppt)
Hosts == {"hblog", "hppt", "hdup", "hhelper", "hanon"}

CardOf(host) ==
    CASE host = "hblog" ->
           Card(s_blog_agent,
                <<Skill(s_blog_generation, <<s_writing, s_technical>>)>>,
                None, None, <<Item("primaryKeywords", <<s_blog, s_article>>)>>, <<>>)
      [] host = "hppt" ->
           Card(s_ppt_agent,
                <<Skill(s_ppt_generation, <<s_deck>>)>>,
                None, Some(<<s_ppt, s_slides>>), <<>>, <<>>)
      [] host = "hdup" ->
           Card(s_blog_agent, <<>>, Some(<<>>), None, <<Item("other", <<>>)>>,
                <<Item("primaryKeywords", <<s_blog>>)>>)
      [] host = "hhelper" ->
           Card(s_the_helper, <<Skill(<<>>, <<>>)>>,
                None, None, <<>>, <<Item("primaryKeywords", <<s_code>>)>>)
      [] host = "hanon" ->
           Card(<<>>, <<>>, Some(<<s_code>>), Some(<<s_deck>>), <<>>, <<>>)
      [] host = "hblog_only" ->
           Card(s_blog_agent, <<>>, Some(<<s_blog>>), None, <<>>, <<>>)
      [] host = "hppt_only" ->
           Card(s_ppt_agent, <<>>, None, Some(<<s_ppt>>), <<>>, <<>>)

Tasks ==
    {t_write_blog, t_create_ppt, t_three_domains, t_hello, t_code_review, t_blog_article}

\* the agent_name argument of send_task
AgentNames == {None, Some(s_blog_agent), Some(s_ppt_agent), Some(s_nobody), Some(<<>>)}

\* a response message: has_text is hasattr(message, 'text')
Message(has_text, text) == [has_text |-> has_text, text |-> text]

Responses ==
    { <<>>,
      <<Message(TRUE, s_hi)>>,
      <<Message(TRUE, s_a), Message(FALSE, <<>>), Message(TRUE, <<>>), Message(TRUE, s_b)>> }

\* the exceptions agent.run raises
RunErrors == {"ConnectError", "ValueError"}

\* the lists of n distinct hosts
RECURSIVE HostLists(_)
HostLists(n) ==
    IF n = 0 THEN {<<>>}
    ELSE {Append(x[1], x[2]) :
            x \in {y \in HostLists(n - 1) \X Hosts :
                     \A i \in 1..Len(y[1]) : y[1][i] # y[2]}}

(***************************************************************************)
(* MultiAgentOrchestrator.discover_agent                                   *)
(***************************************************************************)
ItemsHave(items, key) == \E i \in 1..Len(items) : items[i].key = key

ItemsGet(items, key) == items[CHOOSE i \in 1..Len(items) : items[i].key = key].value

\* a Python value that is a list or None is truthy when it is a non-empty list
Truthy(opt) == opt # None /\ opt[1] # <<>>

\* the if/elif chain that reads the routing keywords of a card
ExtractPrimaryKeywords(agent_card) ==
    IF Truthy(agent_card.primary_keywords) THEN agent_card.primary_keywords[1]
    ELSE IF Truthy(agent_card.primaryKeywords) THEN agent_card.primaryKeywords[1]
    ELSE IF agent_card.model_extra # <<>>
    THEN (IF ItemsHave(agent_card.model_extra, "primaryKeywords")
          THEN ItemsGet(agent_card.model_extra, "primaryKeywords") ELSE <<>>)
    ELSE IF ItemsHave(agent_card.dict, "primaryKeywords")
    THEN ItemsGet(agent_card.dict, "primaryKeywords")
    ELSE <<>>

\* tags.extend(skill.tags) over the skills, then set(tags)
CardTags(agent_card) ==
    UNION {{agent_card.skills[i].tags[j] : j \in 1..Len(agent_card.skills[i].tags)} :
             i \in 1..Len(agent_card.skills)}

\* the AgentInfo built from a fetched card; agent (the A2AAgent handle) is
\* identified by the url it was created with
AgentInfo(agent_host, agent_card) ==
    [agent |-> agent_host,
     host |-> agent_host,
     name |-> agent_card.name,
     skills |-> [i \in 1..Len(agent_card.skills) |->
                   [id |-> agent_card.skills[i].id, tags |-> agent_card.skills[i].tags]],
     tags |-> CardTags(agent_card),
     primary_keywords |-> ExtractPrimaryKeywords(agent_card)]

\* the value of one discover_agent coroutine: fetched_ok says whether
\* resolver.get_agent_card() returned a card; any exception inside the try
\* block is caught and the coroutine returns None
discover_agent(agent_host, fetched_ok) ==
    IF fetched_ok THEN Some(AgentInfo(agent_host, CardOf(agent_host))) ELSE None

(***************************************************************************)
(* State.                                                                  *)
(***************************************************************************)
VARIABLES
    agents,            \* self.agents: the AgentInfo values in insertion order
    default_agent,     \* self.default_agent: None or Some(name)
    fetches,           \* number of card fetches started so far
    dpc,               \* discover_all_agents: "idle", "gather" or "returned"
    agent_hosts,       \* its argument
    results,           \* the gathered tasks, in the order of agent_hosts
    completed,         \* indices of the settled fetches, in settling order
    agents_before,     \* self.agents when the call started
    default_before,    \* self.default_agent when the call started
    discovered_count,  \* its return value: None or Some(n)
    spc,               \* send_task: "idle", "run", "returned" or "raised"
    task,              \* its argument task
    agent_name,        \* its argument agent_name: None or Some(name)
    agent_info,        \* the selected agent: None or Some(name)
    scores,            \* the sorted list scores of its select_agent call
    invoked,           \* the agents whose run() this call has awaited
    run_result,        \* what the awaited run() gave: None, messages or an exception
    outcome,           \* what the call returned or raised
    listing,           \* what the last two list_agents calls since the last
                       \* discovery printed, oldest first
    driver,            \* the position of main or interactive_mode
    stream             \* an agent's process_a2a_message_streaming generator

vars == <<agents, default_agent, fetches, dpc, agent_hosts, results, completed,
          agents_before, default_before, discovered_count,
          spc, task, agent_name, agent_info, scores, invoked, run_result, outcome,
          listing, driver, stream>>

orchVars == <<agents, default_agent>>

discVars == <<fetches, dpc, agent_hosts, results, completed, agents_before,
              default_before, discovered_count>>

sendVars == <<spc, task, agent_name, agent_info, scores, invoked, run_result, outcome>>

\* a task of the gather: state is "pending", or "done" with the value the
\* coroutine returned in value (None or Some(AgentInfo)), or "exception"
Pending == [state |-> "pending", value |-> None]

Done(v) == [state |-> "done", value |-> v]

\* an outcome of send_task: the pair (text, name) it returned, or the exception
\* it raised with its type in error and, in agent, the agent name that
\* send_task attached to it (None: the exception is raised as it is)
NoOutcome ==
    [kind |-> "none", text |-> <<>>, name |-> <<>>, error |-> "none", agent |-> None]

\* a pair that carries the agent name the caller asked for, if any
Returned_requested_name(text, name) ==
    [kind |-> "returned", text |-> text,
     name |-> IF agent_name # None THEN agent_name[1] ELSE name,
     error |-> "none", agent |-> None]

Returned(text, name) ==
    [kind |-> "returned", text |-> text, name |-> name, error |-> "none", agent |-> None]

Raised(error) ==
    [kind |-> "raised", text |-> <<>>, name |-> <<>>, error |-> error, agent |-> None]

\* what the awaited agent.run(task) gave
RunReturned(messages) == [ok |-> TRUE, messages |-> messages, error |-> "none"]

RunRaised(error) == [ok |-> FALSE, messages |-> <<>>, error |-> error]

\* no driver: the calls of the orchestrator are made in any order
NoDriver ==
    [mode |-> "none", pc |-> "none", i |-> 0, count |-> None, printed |-> "none",
     ended_by |-> "none"]

\* MultiAgentOrchestrator.__init__, no call made yet
\* no request is being streamed
NoStream == [pc |-> "none"]

InitOrchestrator ==
    /\ agents = <<>>
    /\ default_agent = None
    /\ fetches = 0
    /\ dpc = "idle"
    /\ agent_hosts = <<>>
    /\ results = <<>>
    /\ completed = <<>>
    /\ agents_before = <<>>
    /\ default_before = None
    /\ discovered_count = None
    /\ spc = "idle"
    /\ task = <<>>
    /\ agent_name = None
    /\ agent_info = None
    /\ scores = <<>>
    /\ invoked = <<>>
    /\ run_result = None
    /\ outcome = NoOutcome
    /\ listing = <<>>

Init == InitOrchestrator /\ driver = NoDriver /\ stream = NoStream

\* the caller (main, interactive_mode) awaits every call of the orchestrator
\* and handles what it returned or raised before it makes the next call
NoCallInProgress == dpc = "idle" /\ spc = "idle"

(***************************************************************************)
(* MultiAgentOrchestrator.discover_all_agents                              *)
(***************************************************************************)
\* tasks = [self.discover_agent(host) for host in agent_hosts] and the start
\* of asyncio.gather(*tasks, return_exceptions=True): every coroutine is
\* scheduled before the caller suspends
GatherStart(hosts) == [i \in 1..Len(hosts) |-> Pending]

discover_all_agents_call(hosts) ==
    /\ NoCallInProgress
    /\ fetches + Len(hosts) <= MaxFetches
    /\ fetches' = fetches + Len(hosts)
    /\ dpc' = "gather"
    /\ agent_hosts' = hosts
    /\ results' = GatherStart(hosts)
    /\ completed' = <<>>
    /\ agents_before' = agents
    /\ default_before' = default_agent
    /\ discovered_count' = None
    /\ listing' = <<>>
    /\ UNCHANGED <<orchVars, sendVars>>

\* one discover_agent coroutine finishes: its card fetch returned a card
\* (fetched_ok) or raised
discover_agent_settles(i, fetched_ok) ==
    /\ dpc = "gather"
    /\ i \in 1..Len(results)
    /\ results[i].state = "pending"
    /\ results' = [results EXCEPT ![i] = Done(discover_agent(agent_hosts[i], fetched_ok))]
    /\ completed' = Append(completed, i)
    /\ UNCHANGED <<orchVars, sendVars, listing, fetches, dpc, agent_hosts,
                   agents_before, default_before, discovered_count>>

discover_agent_succeeds(i) == discover_agent_settles(i, TRUE)

discover_agent_fails(i) == discover_agent_settles(i, FALSE)

\* a join that resumes its caller as soon as one task has settled
GatherDone_first(rs) == rs = <<>> \/ \E i \in 1..Len(rs) : rs[i].state # "pending"

\* gather resumes its caller when no task is pending
GatherDone(rs) == \A i \in 1..Len(rs) : rs[i].state # "pending"

\* the results in the order in which they settled (as_completed)
GatherResults_completion(rs, done) == [k \in 1..Len(done) |-> rs[done[k]]]

\* the list gather returns: the results in the order of the awaitables,
\* whatever the order done in which they settled
GatherResults(rs, done) == rs

\* a result loop that makes every registered agent the default in turn
RECURSIVE ResultLoop_last_default(_, _, _, _)
ResultLoop_last_default(rs, i, reg, def) ==
    IF i > Len(rs) THEN [agents |-> reg, default_agent |-> def]
    ELSE IF rs[i].state = "done" /\ rs[i].value # None
    THEN ResultLoop_last_default(rs, i + 1, DictSet(reg, rs[i].value[1]),
                                 Some(rs[i].value[1].name))
    ELSE ResultLoop_last_default(rs, i + 1, reg, def)

\* for result in results: the registry and the default after the results
\* from position i on have been processed
RECURSIVE ResultLoop(_, _, _, _)
ResultLoop(rs, i, reg, def) ==
    IF i > Len(rs) THEN [agents |-> reg, default_agent |-> def]
    ELSE IF rs[i].state = "done" /\ rs[i].value # None
    THEN ResultLoop(rs, i + 1, DictSet(reg, rs[i].value[1]),
                    IF def = None THEN Some(rs[i].value[1].name) ELSE def)
    ELSE ResultLoop(rs, i + 1, reg, def)

\* a count of the hosts instead of the registered agents
DiscoveredCount_hosts(reg, rs) == Len(rs)

\* return len(self.agents); rs is the list of results
DiscoveredCount(reg, rs) == Len(reg)

discover_all_agents_return ==
    /\ dpc = "gather"
    /\ GatherDone(results)
    /\ \E rs \in {GatherResults(results, completed)} :
       \E after \in {ResultLoop(rs, 1, agents, default_agent)} :
          /\ agents' = after.agents
          /\ default_agent' = after.default_agent
          /\ discovered_count' = Some(DiscoveredCount(after.agents, rs))
    /\ dpc' = "returned"
    /\ UNCHANGED <<sendVars, listing, fetches, agent_hosts, results, completed,
                   agents_before, default_before>>

\* the caller receives the count: discovered_count = await ...
caller_takes_count ==
    /\ dpc = "returned"
    /\ dpc' = "idle"
    /\ agent_hosts' = <<>>
    /\ results' = <<>>
    /\ completed' = <<>>
    /\ agents_before' = <<>>
    /\ default_before' = None
    /\ discovered_count' = None
    /\ UNCHANGED <<orchVars, sendVars, listing, fetches>>

(***************************************************************************)
(* MultiAgentOrchestrator.send_task                                        *)
(***************************************************************************)
\* if agent_name and agent_name in self.agents
ExplicitAgentGiven(registry, name) ==
    name # None /\ name[1] # <<>> /\ DictHas(registry, name[1])

\* send_task returning an empty pair when no agent was selected
NoAgentOutcome_returns == Returned(<<>>, <<>>)

\* if not agent_info: raise ValueError("No suitable agent found for the task")
NoAgentOutcome == Raised("ValueError")

\* the call up to its await: it selects, then raises ValueError or awaits the
\* run of the selected agent
send_task_call(t, name) ==
    /\ NoCallInProgress
    /\ task' = t
    /\ agent_name' = name
    /\ \E sc \in {IF ExplicitAgentGiven(agents, name) THEN <<>>
                   ELSE SortedScores(agents, t)} :
       \E sel \in {IF ExplicitAgentGiven(agents, name) THEN name
                    ELSE select_agent(agents, default_agent, t)} :
          /\ scores' = sc
          /\ agent_info' = sel
          /\ IF sel = None
             THEN /\ spc' = NoAgentOutcome.kind
                  /\ invoked' = <<>>
                  /\ outcome' = NoAgentOutcome
             ELSE /\ spc' = "run"
                  /\ invoked' = <<DictGet(agents, sel[1]).agent>>
                  /\ outcome' = NoOutcome
    /\ run_result' = None
    /\ UNCHANGED <<orchVars, discVars, listing>>

\* an extraction that only tests hasattr(message, 'text')
RECURSIVE ResultTexts_any_text(_)
ResultTexts_any_text(messages) ==
    IF messages = <<>> THEN <<>>
    ELSE IF Head(messages).has_text
    THEN <<Head(messages).text>> \o ResultTexts_any_text(Tail(messages))
    ELSE ResultTexts_any_text(Tail(messages))

\* the texts of the messages that have a non-empty text, in order
RECURSIVE ResultTexts(_)
ResultTexts(messages) ==
    IF messages = <<>> THEN <<>>
    ELSE IF Head(messages).has_text /\ Head(messages).text # <<>>
    THEN <<Head(messages).text>> \o ResultTexts(Tail(messages))
    ELSE ResultTexts(Tail(messages))

\* agent.run(task) returned: return result, agent_info.name
agent_run_returns(messages) ==
    /\ spc = "run"
    /\ spc' = "returned"
    /\ run_result' = Some(RunReturned(messages))
    /\ outcome' = Returned(JoinNewline(ResultTexts(messages)), agent_info[1])
    /\ UNCHANGED <<orchVars, discVars, listing, task, agent_name, agent_info, scores,
                   invoked>>

\* an except block that logs the failure and returns an empty response
RunFailureOutcome_swallowed(error, name) == Returned(<<>>, name)

\* an except block that raises ValueError(str(e)) in place of the exception
RunFailureOutcome_as_ValueError(error, name) == Raised("ValueError")

\* except Exception as e: logger.error(f"... agent '{agent_info.name}': {e}")
\* and a bare raise: the name goes to the log, the exception that run()
\* raised goes to the caller as it is
RunFailureOutcome(error, name) == Raised(error)

\* agent.run(task) raised
agent_run_raises(error) ==
    /\ spc = "run"
    /\ \E out \in {RunFailureOutcome(error, agent_info[1])} :
          /\ spc' = out.kind
          /\ outcome' = out
    /\ run_result' = Some(RunRaised(error))
    /\ UNCHANGED <<orchVars, discVars, listing, task, agent_name, agent_info, scores,
                   invoked>>

\* the caller receives the pair or catches the exception and goes on
caller_takes_outcome ==
    /\ spc \in {"returned", "raised"}
    /\ spc' = "idle"
    /\ task' = <<>>
    /\ agent_name' = None
    /\ agent_info' = None
    /\ scores' = <<>>
    /\ invoked' = <<>>
    /\ run_result' = None
    /\ outcome' = NoOutcome
    /\ UNCHANGED <<orchVars, discVars, listing>>

(***************************************************************************)
(* MultiAgentOrchestrator.list_agents                                      *)
(***************************************************************************)
\* the ids of the skills: [s.get('name', s.get('id')) for s in info.skills]
SkillIds(skills) == [k \in 1..Len(skills) |-> skills[k].id]

\* what the loop over self.agents.items() prints: for each agent, in the
\* order of the registry, its name, host, skills and tags
Listing(registry) ==
    [k \in 1..Len(registry) |->
        [name |-> registry[k].name, host |-> registry[k].host,
         skills |-> SkillIds(registry[k].skills), tags |-> registry[k].tags]]

\* a listing that consumes the registry (popitem in place of items)
AgentsAfterListing_drained(registry) == <<>>

\* self.agents after list_agents: the method only reads it
AgentsAfterListing(registry) == registry

\* list_agents is synchronous: it runs between two awaited calls
list_agents ==
    /\ NoCallInProgress
    /\ listing' = IF listing = <<>> THEN <<Listing(agents)>>
                  ELSE <<listing[Len(listing)], Listing(agents)>>
    /\ agents' = AgentsAfterListing(agents)
    /\ UNCHANGED <<default_agent, discVars, sendVars>>

\* the lists of hosts a call of discover_all_agents is given
AllHostLists == UNION {HostLists(n) : n \in 0..MaxFetches}

Next ==
    \/ (\E hosts \in AllHostLists : discover_all_agents_call(hosts)) /\ UNCHANGED <<driver, stream>>
    \/ (\E i \in 1..MaxFetches : discover_agent_succeeds(i)) /\ UNCHANGED <<driver, stream>>
    \/ (\E i \in 1..MaxFetches : discover_agent_fails(i)) /\ UNCHANGED <<driver, stream>>
    \/ discover_all_agents_return /\ UNCHANGED <<driver, stream>>
    \/ /\ \E t \in Tasks : \E name \in AgentNames : send_task_call(t, name)
       /\ UNCHANGED <<driver, stream>>
    \/ (\E messages \in Responses : agent_run_returns(messages)) /\ UNCHANGED <<driver, stream>>
    \/ (\E error \in RunErrors : agent_run_raises(error)) /\ UNCHANGED <<driver, stream>>
    \/ caller_takes_count /\ UNCHANGED <<driver, stream>>
    \/ caller_takes_outcome /\ UNCHANGED <<driver, stream>>
    \/ list_agents /\ UNCHANGED <<driver, stream>>

Spec == Init /\ [][Next]_vars

\* the event loop runs a coroutine that can go on, and every card fetch
\* settles (it returns, fails or times out)
FairSpec ==
    /\ Spec
    /\ \A i \in 1..MaxFetches :
          WF_vars((discover_agent_succeeds(i) \/ discover_agent_fails(i))
                  /\ UNCHANGED <<driver, stream>>)
    /\ WF_vars(discover_all_agents_return /\ UNCHANGED <<driver, stream>>)

(***************************************************************************)
(* main and interactive_mode                                               *)
(***************************************************************************)
\* the three test_tasks of main, shortened: a question that names no domain,
\* a blog task and a ppt task
TestTasks == <<t_hello, t_write_blog, t_create_ppt>>

s_quit == <<"q", "u", "i", "t">>

s_list == <<"l", "i", "s", "t">>

\* the lines the user types at the prompt of interactive_mode
UserInputs ==
    { <<>>, <<" ">>, s_quit, <<" ">> \o <<"Q", "u", "i", "t">> \o <<" ">>, s_list,
      <<"L", "I", "S", "T">>, t_hello, <<" ">> \o t_create_ppt, t_blog_article }

\* str.strip(): s without its leading and trailing whitespace
RECURSIVE Strip(_)
Strip(s) ==
    IF s = <<>> THEN s
    ELSE IF IsSpace(s[1]) THEN Strip(Tail(s))
    ELSE IF IsSpace(s[Len(s)]) THEN Strip(SubSeq(s, 1, Len(s) - 1))
    ELSE s

\* main or interactive_mode has read A2A_AGENT_HOST and made the orchestrator
DriverInit ==
    /\ InitOrchestrator
    /\ driver \in {[mode |-> m, pc |-> "start", i |-> 1, count |-> None,
                      printed |-> "none", ended_by |-> "none"] :
                     m \in {"main", "interactive"}}
    /\ stream = NoStream

\* discovered_count = await orchestrator.discover_all_agents(agent_hosts)
driver_discovers(hosts) ==
    /\ driver.pc = "start"
    /\ discover_all_agents_call(hosts)
    /\ driver' = [driver EXCEPT !.pc = "discover"]

(***************************************************************************)
(* The orchestrator with two agents whose keyword sets are {blog}, {ppt}.  *)
(***************************************************************************)
ScenarioHostLists ==
    { <<>>, <<"hblog_only">>, <<"hppt_only">>, <<"hblog_only", "hppt_only">>,
      <<"hppt_only", "hblog_only">> }

ScenarioNext ==
    \/ (\E hosts \in ScenarioHostLists : discover_all_agents_call(hosts))
          /\ UNCHANGED <<driver, stream>>
    \/ (\E i \in 1..MaxFetches : discover_agent_succeeds(i)) /\ UNCHANGED <<driver, stream>>
    \/ (\E i \in 1..MaxFetches : discover_agent_fails(i)) /\ UNCHANGED <<driver, stream>>
    \/ discover_all_agents_return /\ UNCHANGED <<driver, stream>>
    \/ /\ \E t \in Tasks : \E name \in AgentNames : send_task_call(t, name)
       /\ UNCHANGED <<driver, stream>>
    \/ (\E messages \in Responses : agent_run_returns(messages)) /\ UNCHANGED <<driver, stream>>
    \/ (\E error \in RunErrors : agent_run_raises(error)) /\ UNCHANGED <<driver, stream>>
    \/ caller_takes_count /\ UNCHANGED <<driver, stream>>
    \/ caller_takes_outcome /\ UNCHANGED <<driver, stream>>
    \/ list_agents /\ UNCHANGED <<driver, stream>>

ScenarioSpec == Init /\ [][ScenarioNext]_vars

\* a driver that goes on whatever the count is
AfterDiscovery_goes_on(count) == "list"

\* if discovered_count == 0: ... return; otherwise the driver goes on to
\* list_agents
AfterDiscovery(count) == IF count = Some(0) THEN "ended" ELSE "list"

driver_takes_count ==
    /\ driver.pc = "discover"
    /\ caller_takes_count
    /\ driver' = [driver EXCEPT !.count = discovered_count,
                                !.pc = AfterDiscovery(discovered_count),
                                !.ended_by = IF AfterDiscovery(discovered_count) = "ended"
                                             THEN "no agents" ELSE @]

\* orchestrator.list_agents() after the discovery
driver_lists ==
    /\ driver.pc = "list"
    /\ list_agents
    /\ driver' = [driver EXCEPT !.pc = "loop"]

\* for i, task_info in enumerate(test_tasks, 1): await send_task(task)
main_sends ==
    /\ driver.mode = "main"
    /\ driver.pc = "loop"
    /\ driver.i <= Len(TestTasks)
    /\ send_task_call(TestTasks[driver.i], None)
    /\ driver' = [driver EXCEPT !.pc = "send"]

\* what the driver prints for an outcome of send_task: the pair, or
\* "Error: ..." in its except Exception block
Printed(out) == IF out.kind = "returned" THEN "pair" ELSE "error"

\* a driver whose session ends when a send_task raises
driver_takes_outcome_aborts ==
    /\ driver.pc = "send"
    /\ caller_takes_outcome
    /\ driver' = IF outcome.kind = "raised"
                 THEN [driver EXCEPT !.pc = "ended", !.printed = "error",
                                     !.ended_by = "error"]
                 ELSE IF driver.mode = "main"
                 THEN [driver EXCEPT !.i = driver.i + 1,
                                     !.pc = IF driver.i = Len(TestTasks) THEN "ended"
                                            ELSE "loop",
                                     !.printed = "pair",
                                     !.ended_by = IF driver.i = Len(TestTasks)
                                                  THEN "done" ELSE @]
                 ELSE [driver EXCEPT !.pc = "loop", !.printed = "pair"]

\* the pair is printed or the exception is caught and printed; main goes on
\* with the next test task and returns after the last, interactive_mode goes
\* back to its prompt
driver_takes_outcome ==
    /\ driver.pc = "send"
    /\ caller_takes_outcome
    /\ driver' = IF driver.mode = "main"
                 THEN [driver EXCEPT !.i = driver.i + 1,
                                     !.pc = IF driver.i = Len(TestTasks) THEN "ended"
                                            ELSE "loop",
                                     !.printed = Printed(outcome),
                                     !.ended_by = IF driver.i = Len(TestTasks)
                                                  THEN "done" ELSE @]
                 ELSE [driver EXCEPT !.pc = "loop", !.printed = Printed(outcome)]

\* one turn of while True: user_input = input("\n> ").strip(), then continue,
\* break, list_agents or send_task
interactive_input(line) ==
    /\ driver.mode = "interactive"
    /\ driver.pc = "loop"
    /\ \E user_input \in {Strip(line)} :
          IF user_input = <<>> THEN UNCHANGED vars
          ELSE IF LowerStr(user_input) = s_quit
          THEN /\ driver' = [driver EXCEPT !.pc = "ended", !.ended_by = "quit"]
               /\ UNCHANGED <<orchVars, discVars, sendVars, listing>>
          ELSE IF LowerStr(user_input) = s_list
          THEN list_agents /\ UNCHANGED <<driver, stream>>
          ELSE /\ send_task_call(user_input, None)
               /\ driver' = [driver EXCEPT !.pc = "send"]

\* except KeyboardInterrupt: break
interactive_interrupt ==
    /\ driver.mode = "interactive"
    /\ driver.pc = "loop"
    /\ driver' = [driver EXCEPT !.pc = "ended", !.ended_by = "interrupt"]
    /\ UNCHANGED <<orchVars, discVars, sendVars, listing>>

DriverNext ==
    \/ (\E hosts \in AllHostLists : driver_discovers(hosts)) /\ UNCHANGED stream
    \/ (\E i \in 1..MaxFetches : discover_agent_succeeds(i)) /\ UNCHANGED <<driver, stream>>
    \/ (\E i \in 1..MaxFetches : discover_agent_fails(i)) /\ UNCHANGED <<driver, stream>>
    \/ discover_all_agents_return /\ UNCHANGED <<driver, stream>>
    \/ driver_takes_count /\ UNCHANGED stream
    \/ driver_lists /\ UNCHANGED stream
    \/ main_sends /\ UNCHANGED stream
    \/ (\E line \in UserInputs : interactive_input(line)) /\ UNCHANGED stream
    \/ interactive_interrupt /\ UNCHANGED stream
    \/ (\E messages \in Responses : agent_run_returns(messages)) /\ UNCHANGED <<driver, stream>>
    \/ (\E error \in RunErrors : agent_run_raises(error)) /\ UNCHANGED <<driver, stream>>
    \/ driver_takes_outcome /\ UNCHANGED stream

DriverSpec == DriverInit /\ [][DriverNext]_vars

\* an awaited run() ends, the http client of the drivers having a timeout
\* (httpx.Timeout(600.0, connect=30.0)), and the driver then takes the pair
\* or catches the exception
DriverFairSpec ==
    /\ DriverSpec
    /\ WF_vars(driver_takes_outcome /\ UNCHANGED stream)
    /\ WF_vars(((\E messages \in Responses : agent_run_returns(messages))
                   \/ (\E error \in RunErrors : agent_run_raises(error)))
                /\ UNCHANGED <<driver, stream>>)

(***************************************************************************)
(* The agents: process_a2a_message_streaming of gh-cli-blog-agent/main.py  *)
(* and gh-cli-ppt-agent/main.py, an async generator of SSE events.  An     *)
(* event is held without the request fields it echoes (jsonrpc, id,        *)
(* contextId, taskId) and without its message ids; a text is the sequence  *)
(* of the pieces it is made of.                                            *)
(***************************************************************************)
StreamAgents == {"blog", "ppt"}

\* the delta_content of an ASSISTANT_MESSAGE_DELTA event
Deltas == {<<>>, s_a, s_b}

\* what session.send_and_wait or create_session raises
StreamErrors == {"TimeoutError", "RuntimeError"}

\* a status-update event
StatusEvent(final, state, text) ==
    [kind |-> "status-update", final |-> final, state |-> state, text |-> text]

\* the first event
WorkingEvent(agent) ==
    StatusEvent(FALSE, "working",
                <<IF agent = "blog" THEN "Processing your request..."
                  ELSE "Processing your PPT request...">>)

\* a failed event that does not end the stream
FailedEvent_not_final(text) == StatusEvent(FALSE, "failed", text)

\* error_event: final, state failed
FailedEvent(text) == StatusEvent(TRUE, "failed", text)

\* heartbeat_event: f"Still processing... ({heartbeat_count * 5}s elapsed,
\* {len(response_chunks)} chunks received)"
HeartbeatEvent(agent, heartbeat_count, response_chunks) ==
    StatusEvent(FALSE, "working",
                <<IF agent = "blog" THEN "Still processing... ("
                  ELSE "Still generating PPT... (",
                  ToString(heartbeat_count * 5), "s elapsed, ",
                  ToString(Len(response_chunks)), " chunks received)">>)

\* ''.join(response_chunks)
RECURSIVE JoinChunks(_)
JoinChunks(response_chunks) ==
    IF response_chunks = <<>> THEN <<>>
    ELSE Head(response_chunks) \o JoinChunks(Tail(response_chunks))

\* response_text = ''.join(response_chunks); if not response_text: the
\* agent's default text
ResponseText(agent, response_chunks) ==
    IF JoinChunks(response_chunks) = <<>>
    THEN <<IF agent = "blog" THEN "Task completed successfully."
           ELSE "PPT generation completed successfully.">>
    ELSE JoinChunks(response_chunks)

\* artifact_event: it has no final field and no status
ArtifactEvent(response_text) == [kind |-> "artifact-update", text |-> response_text]

\* a completion event that carries a fixed text
CompleteEvent_fixed_text(response_text) ==
    StatusEvent(TRUE, "completed", <<"Task completed successfully.">>)

\* complete_event: final, state completed, the text of the artifact
CompleteEvent(response_text) == StatusEvent(TRUE, "completed", response_text)

\* the generator before its first step: client says whether copilot_client is
\* set; task is the state of the asyncio task of session.send_and_wait
NewStream(agent, client) ==
    [pc |-> "start", agent |-> agent, client |-> client, events |-> <<>>,
     task |-> "none", response_chunks |-> <<>>, heartbeat_count |-> 0,
     response_text |-> None]

orchestratorVars == <<orchVars, discVars, sendVars, listing, driver>>

StreamInit ==
    /\ InitOrchestrator
    /\ driver = NoDriver
    /\ stream \in {NewStream(agent, client) : agent \in StreamAgents, client \in BOOLEAN}

Yield(event) == [stream EXCEPT !.events = Append(@, event)]

\* the initial working status is sent at once
yield_working ==
    /\ stream.pc = "start"
    /\ stream' = [Yield(WorkingEvent(stream.agent)) EXCEPT !.pc = "working"]
    /\ UNCHANGED orchestratorVars

\* if copilot_client is None: yield error_event; return
client_is_none ==
    /\ stream.pc = "working"
    /\ ~stream.client
    /\ stream' = [Yield(FailedEvent(<<"Agent not initialized">>)) EXCEPT !.pc = "ended"]
    /\ UNCHANGED orchestratorVars

\* create_session returned: the handler is registered, the task is created
\* and, not being done yet, the loop goes to its first sleep
create_session_returns ==
    /\ stream.pc = "working"
    /\ stream.client
    /\ stream' = [stream EXCEPT !.task = "running", !.pc = "sleep"]
    /\ UNCHANGED orchestratorVars

\* create_session raised: the except block sends the failed event
create_session_raises(error) ==
    /\ stream.pc = "working"
    /\ stream.client
    /\ stream' = [Yield(FailedEvent(<<"Error: ", error>>)) EXCEPT !.pc = "ended"]
    /\ UNCHANGED orchestratorVars

\* handle_event: response_chunks.append(event.data.delta_content)
handle_event(delta_content) ==
    /\ stream.pc \in {"sleep", "loop"}
    /\ stream.task = "running"
    /\ Len(stream.response_chunks) < MaxChunks
    /\ stream' = [stream EXCEPT !.response_chunks = Append(@, delta_content)]
    /\ UNCHANGED orchestratorVars

\* session.send_and_wait returned
task_returns ==
    /\ stream.pc \in {"sleep", "loop"}
    /\ stream.task = "running"
    /\ stream' = [stream EXCEPT !.task = "done"]
    /\ UNCHANGED orchestratorVars

\* session.send_and_wait raised (its timeout is 600 s)
task_raises(error) ==
    /\ stream.pc \in {"sleep", "loop"}
    /\ stream.task = "running"
    /\ stream' = [stream EXCEPT !.task = error]
    /\ UNCHANGED orchestratorVars

\* while not task.done(): the loop goes to sleep again
loop_continues ==
    /\ stream.pc = "loop"
    /\ stream.task = "running"
    /\ stream.heartbeat_count < MaxHeartbeats
    /\ stream' = [stream EXCEPT !.pc = "sleep"]
    /\ UNCHANGED orchestratorVars

\* asyncio.sleep(5) is over: heartbeat_count += 1 and the heartbeat is sent,
\* whether or not the task finished during the sleep
sleep_ends ==
    /\ stream.pc = "sleep"
    /\ \E n \in {stream.heartbeat_count + 1} :
          stream' = [Yield(HeartbeatEvent(stream.agent, n, stream.response_chunks))
                        EXCEPT !.heartbeat_count = n, !.pc = "loop"]
    /\ UNCHANGED orchestratorVars

\* the loop is left, await task returns and the artifact is sent
yield_artifact ==
    /\ stream.pc = "loop"
    /\ stream.task = "done"
    /\ \E response_text \in {ResponseText(stream.agent, stream.response_chunks)} :
          stream' = [Yield(ArtifactEvent(response_text))
                        EXCEPT !.response_text = Some(response_text), !.pc = "artifact"]
    /\ UNCHANGED orchestratorVars

\* the loop is left and await task raises: the except block sends the
\* failed event
await_task_raises ==
    /\ stream.pc = "loop"
    /\ stream.task \in StreamErrors
    /\ stream' = [Yield(FailedEvent(<<"Error: ", stream.task>>)) EXCEPT !.pc = "ended"]
    /\ UNCHANGED orchestratorVars

\* the completion status follows the artifact
yield_complete ==
    /\ stream.pc = "artifact"
    /\ stream' = [Yield(CompleteEvent(stream.response_text[1])) EXCEPT !.pc = "ended"]
    /\ UNCHANGED orchestratorVars

StreamNext ==
    \/ yield_working
    \/ client_is_none
    \/ create_session_returns
    \/ \E error \in StreamErrors : create_session_raises(error)
    \/ \E delta_content \in Deltas : handle_event(delta_content)
    \/ task_returns
    \/ \E error \in StreamErrors : task_raises(error)
    \/ loop_continues
    \/ sleep_ends
    \/ yield_artifact
    \/ await_task_raises
    \/ yield_complete

StreamSpec == StreamInit /\ [][StreamNext]_vars

\* the consumer (the StreamingResponse) keeps reading the generator and a
\* sleep of 5 s ends, so every step of the generator is taken in the end;
\* nothing is assumed of the task
GeneratorStep ==
    \/ yield_working
    \/ client_is_none
    \/ create_session_returns
    \/ \E error \in StreamErrors : create_session_raises(error)
    \/ sleep_ends
    \/ yield_artifact
    \/ await_task_raises
    \/ yield_complete

StreamFairSpec == StreamSpec /\ WF_vars(GeneratorStep)

(***************************************************************************)
(* Properties.                                                             *)
(***************************************************************************)
FLeq(x, y) == ~FLess(y, x)

\* a send_task call has selected (it is suspended at the run, or has ended)
SendActive == spc # "idle"

\* the call went through select_agent (no usable explicit agent)
ScoringUsed == SendActive /\ ~ExplicitAgentGiven(agents, agent_name)

\* the scores of the registered agents for the task, in registry order
RegistryScores == Scores(agents, task)

\* C1: every score matches_task returns lies in [0.0, 1.0], whatever positive
\* and negative contributions accumulated
C1_ScoreClamped ==
    \A i \in 1..Len(scores) :
        FLeq(F_0_0, scores[i].score) /\ FLeq(scores[i].score, F_1_0)

\* a ranking in which one score was clamped down to 1.0 and another up to 0.0
C1_Witness ==
    /\ task = t_blog_article
    /\ \E i, j \in 1..Len(scores) : scores[i].score = F_1_0 /\ scores[j].score = F_0_0

\* C2: send_task with an explicit agent name that is a key of the registry
\* invokes that agent and returns its name, and no scoring takes place
C2_ExplicitAgentUsed ==
    (SendActive /\ agent_name # None /\ DictHas(agents, agent_name[1]))
        => /\ agent_info = agent_name
           /\ scores = <<>>
           /\ invoked = <<DictGet(agents, agent_name[1]).agent>>
           /\ spc = "returned" => outcome.name = agent_name[1]

\* the decimal value, in hundredths, of the score of an agent: the weights
\* 0.5, 0.3, 0.2, 0.15 and 0.25 times the numbers of matches, clamped
RECURSIVE CountKeywords(_, _)
CountKeywords(keywords, task_lower) ==
    IF keywords = <<>> THEN 0
    ELSE (IF Contains(LowerStr(Head(keywords)), task_lower) THEN 1 ELSE 0)
         + CountKeywords(Tail(keywords), task_lower)

RECURSIVE CountPenalties(_, _, _)
CountPenalties(self_name, items, task_lower) ==
    IF items = <<>> THEN 0
    ELSE (IF Head(items).name # self_name
          THEN CountKeywords(Head(items).keywords, task_lower) ELSE 0)
         + CountPenalties(self_name, Tail(items), task_lower)

CountTags(tags, task_lower) ==
    Cardinality({t \in tags : /\ LowerStr(t) \notin GenericTags
                              /\ Contains(LowerStr(t), task_lower)})

\* tokens longer than 3 characters that occur in the task
RECURSIVE CountSkillTokens(_, _)
CountSkillTokens(tokens, task_lower) ==
    IF tokens = <<>> THEN 0
    ELSE (IF Len(Head(tokens)) > 3 /\ Contains(Head(tokens), task_lower) THEN 1 ELSE 0)
         + CountSkillTokens(Tail(tokens), task_lower)

RECURSIVE CountSkills(_, _)
CountSkills(skills, task_lower) ==
    IF skills = <<>> THEN 0
    ELSE CountSkillTokens(
             SplitWhitespace(ReplaceChar(LowerStr(Head(skills).id), "_", " ")), task_lower)
         + CountSkills(Tail(skills), task_lower)

\* name tokens other than the stop-words that occur in the task
RECURSIVE CountNameTokens(_, _)
CountNameTokens(tokens, task_lower) ==
    IF tokens = <<>> THEN 0
    ELSE (IF Head(tokens) \notin NameStopWords /\ Contains(Head(tokens), task_lower)
          THEN 1 ELSE 0)
         + CountNameTokens(Tail(tokens), task_lower)

DecimalScore(self, t, all_agents_keywords) ==
    LET task_lower == The({x : x \in {LowerStr(t)}})
        raw == 50 * CountKeywords(self.primary_keywords, task_lower)
               - 30 * CountPenalties(self.name, all_agents_keywords, task_lower)
               + 20 * CountTags(self.tags, task_lower)
               + 15 * CountSkills(self.skills, task_lower)
               + 25 * CountNameTokens(FindWords(LowerStr(self.name)), task_lower)
    IN IF raw < 0 THEN 0 ELSE IF raw > 100 THEN 100 ELSE raw

\* the decimal score of the top-ranked agent of the current call
TopDecimalScore ==
    DecimalScore(DictGet(agents, scores[1].name), task, AllAgentsKeywords(agents))

\* C3: without an explicit agent, the top-ranked agent is returned iff its
\* score is above 0.1; at 0.1 or below (also at exactly 0.1, as for
\* +0.5 -0.3 -0.3 +0.2) the default agent is returned if one is set, and no
\* agent otherwise
C3_ThresholdRule ==
    (ScoringUsed /\ agents # <<>>)
        => IF TopDecimalScore > 10 THEN agent_info = Some(scores[1].name)
           ELSE IF default_agent # None THEN agent_info = default_agent
           ELSE agent_info = None

\* the least index of the registry whose score is the maximum
FirstMaxIndex(u) ==
    CHOOSE k \in 1..Len(u) :
        /\ \A i \in 1..Len(u) : FLeq(u[i].score, u[k].score)
        /\ \A i \in 1..(k - 1) : FLess(u[i].score, u[k].score)

PickedByScore == ScoringUsed /\ agents # <<>> /\ FLess(MatchThreshold, scores[1].score)

\* C4: an agent picked by score has the maximum score over the registry, and
\* among the agents with that score it is the one inserted first
C4_MaxScoreFirstInserted ==
    PickedByScore =>
        \E u \in {RegistryScores} : agent_info = Some(u[FirstMaxIndex(u)].name)

\* a pick by score between two agents of equal top score
C4_Witness ==
    /\ PickedByScore
    /\ spc = "run"
    /\ \E u \in {RegistryScores} :
         \E i, j \in 1..Len(u) :
            /\ i < j
            /\ i = FirstMaxIndex(u)
            /\ u[j].score = u[i].score
            /\ agent_info = Some(u[i].name)

\* C5: send_task on an empty registry raises, returns no pair and invokes no
\* agent, with or without an explicit agent name
C5_EmptyRegistryRaises ==
    (SendActive /\ agents = <<>>)
        => spc = "raised" /\ outcome.kind = "raised" /\ invoked = <<>>

\* a call with an explicit name on an empty registry has raised
C5_Witness ==
    agents = <<>> /\ spc = "raised" /\ agent_name = Some(s_blog_agent) /\ invoked = <<>>

\* the positions of the batch whose discovery succeeded
Succeeded ==
    {i \in 1..Len(results) : results[i].state = "done" /\ results[i].value # None}

SucceededInfo(i) == results[i].value[1]

\* the hosts that succeeded declare pairwise distinct names
DistinctNames ==
    \A i, j \in Succeeded : i # j => SucceededInfo(i).name # SucceededInfo(j).name

RegistrySet(reg) == {reg[k] : k \in 1..Len(reg)}

\* C6: a batch in which any subset of the hosts fails returns (it does not
\* raise); no entry is added for a failed host, names are unique, and on a
\* fresh registry with hosts of distinct names the registry holds exactly the
\* agents of the hosts that succeeded and the count is their number (2 for
\* three hosts of which only the second fails)
C6_PartialFailureTolerated ==
    dpc = "returned" =>
        /\ discovered_count # None
        /\ \A k \in 1..Len(agents) :
              \/ \E i \in Succeeded : agents[k] = SucceededInfo(i)
              \/ agents[k] \in RegistrySet(agents_before)
        /\ \A k, m \in 1..Len(agents) : k # m => agents[k].name # agents[m].name
        /\ (agents_before = <<>> /\ DistinctNames) =>
              /\ RegistrySet(agents) = {SucceededInfo(i) : i \in Succeeded}
              /\ discovered_count = Some(Cardinality(Succeeded))

\* three hosts on a fresh registry, only the second failed, the count is 2
C6_Witness ==
    /\ dpc = "returned"
    /\ agents_before = <<>>
    /\ Len(agent_hosts) = 3
    /\ Succeeded = {1, 3}
    /\ DistinctNames
    /\ {agents[k].host : k \in 1..Len(agents)} = {agent_hosts[1], agent_hosts[3]}
    /\ discovered_count = Some(2)

\* C7: the value discover_all_agents returns is the number of hosts of that
\* call whose discovery succeeded
C7_CountIsSuccesses ==
    dpc = "returned" => discovered_count = Some(Cardinality(Succeeded))

\* the position that settled first among those that succeeded
FirstCompletedSuccess ==
    completed[CHOOSE k \in 1..Len(completed) :
                 /\ completed[k] \in Succeeded
                 /\ \A m \in 1..(k - 1) : completed[m] \notin Succeeded]

\* the first position of the host list that succeeded
FirstListedSuccess == CHOOSE i \in Succeeded : \A j \in Succeeded : i <= j

BatchSetsDefault == dpc = "returned" /\ default_before = None /\ Succeeded # {}

\* C8 as stated: with no default set, the default agent after the batch is
\* the agent whose discovery completed first in time
C8_DefaultIsFirstCompleted ==
    BatchSetsDefault => default_agent = Some(SucceededInfo(FirstCompletedSuccess).name)

\* C8 amended: with no default set, the default agent after the batch is the
\* agent of the first host of the host list whose discovery succeeded,
\* whatever the order in which the fetches completed
C8_DefaultIsFirstListed ==
    /\ BatchSetsDefault => default_agent = Some(SucceededInfo(FirstListedSuccess).name)
    /\ (dpc = "returned" /\ default_before = None /\ Succeeded = {}) => default_agent = None

\* the first listed success completed after a success of another name
C8_Witness ==
    /\ BatchSetsDefault
    /\ FirstCompletedSuccess # FirstListedSuccess
    /\ SucceededInfo(FirstCompletedSuccess).name # SucceededInfo(FirstListedSuccess).name
    /\ default_agent = Some(SucceededInfo(FirstListedSuccess).name)

\* position i settled before position j
CompletedBefore(i, j) ==
    \E k, m \in 1..Len(completed) : k < m /\ completed[k] = i /\ completed[m] = j

\* two positions of the batch that succeeded with the same name
SameNamePairs ==
    {p \in Succeeded \X Succeeded :
        p[1] < p[2] /\ SucceededInfo(p[1]).name = SucceededInfo(p[2]).name}

EntryCount(name) == Cardinality({k \in 1..Len(agents) : agents[k].name = name})

\* C9 as stated: of two hosts of one batch with the same name, the registry
\* keeps one entry, that of the agent discovered later in time
C9_LaterCompletedWins ==
    dpc = "returned" =>
        \A p \in SameNamePairs :
            /\ EntryCount(SucceededInfo(p[1]).name) = 1
            /\ DictGet(agents, SucceededInfo(p[1]).name) =
                  IF CompletedBefore(p[1], p[2]) THEN SucceededInfo(p[2])
                  ELSE SucceededInfo(p[1])

\* C9 amended: of two hosts of one batch with the same name, the registry
\* keeps one entry, that of the host that comes later in the host list,
\* whatever the order in which the two fetches completed
C9_LaterListedWins ==
    dpc = "returned" =>
        \A p \in SameNamePairs :
            /\ EntryCount(SucceededInfo(p[1]).name) = 1
            /\ DictGet(agents, SucceededInfo(p[1]).name) = SucceededInfo(p[2])

\* the later listed host completed first and its agent is the one kept
C9_Witness ==
    /\ dpc = "returned"
    /\ \E p \in SameNamePairs :
          /\ CompletedBefore(p[2], p[1])
          /\ DictGet(agents, SucceededInfo(p[1]).name).host = agent_hosts[p[2]]
          /\ DictGet(agents, SucceededInfo(p[1]).name).host # agent_hosts[p[1]]

\* C10: the call starts one fetch per host at once, a step settles one fetch
\* and leaves its siblings as they are, the call returns only when every
\* fetch has settled, and it does return when every fetch settles
C10_ConcurrentJoin ==
    /\ [][(dpc # "gather" /\ dpc' = "gather") =>
             /\ Len(results') = Len(agent_hosts')
             /\ \A i \in 1..Len(results') : results'[i].state = "pending"]_vars
    /\ [][(dpc = "gather" /\ dpc' = "gather") =>
             /\ Len(results') = Len(results)
             /\ Cardinality({i \in 1..Len(results) : results'[i] # results[i]}) <= 1
             /\ \A i \in 1..Len(results) :
                   results[i].state # "pending" => results'[i] = results[i]]_vars
    /\ [](dpc = "returned" =>
             /\ Len(results) = Len(agent_hosts)
             /\ \A i \in 1..Len(results) : results[i].state = "done"
             /\ Len(completed) = Len(agent_hosts))
    /\ (dpc = "gather") ~> (dpc = "returned")

\* a batch of three hosts returned after the second one failed first
C10_Witness ==
    /\ dpc = "returned"
    /\ Len(agent_hosts) = 3
    /\ completed[1] = 2
    /\ Succeeded = {1, 3}

\* C11: in main and in interactive_mode a send_task call starts only after
\* discover_all_agents has returned a count other than 0 to the driver; the
\* registry is written only in a step in which no card fetch is pending and
\* no send_task call is in progress; and once the driver has received the
\* count 0 the session has ended and takes no further step
C11_DiscoveryBeforeRouting ==
    [][ /\ (spc = "idle" /\ spc' # "idle") =>
              /\ dpc = "idle"
              /\ driver.count # None
              /\ driver.count # Some(0)
        /\ (agents' # agents) =>
              /\ \A i \in 1..Len(results) : results[i].state # "pending"
              /\ spc = "idle" /\ spc' = "idle"
        /\ (driver'.count = Some(0)) => (driver'.pc = "ended" /\ spc' = "idle")
        /\ driver.count # Some(0) ]_vars

\* a driver that discovered two agents awaits the run of a routed task
C11_Witness == driver.pc = "send" /\ spc = "run" /\ driver.count = Some(2)

\* the awaited run() of the selected agent raised
RunFailed == run_result # None /\ ~run_result[1].ok

C14_RegistryFrame ==
    [][ /\ (agents' # agents \/ default_agent' # default_agent) =>
              (dpc = "gather" /\ dpc' = "returned")
        /\ (spc' # spc) => UNCHANGED <<agents, default_agent>>
        /\ (listing' # <<>> /\ listing' # listing) => UNCHANGED <<agents, default_agent>>
        /\ \A k \in 1..Len(agents) : DictHas(agents', agents[k].name) ]_vars

\* a discovery on a registry that already had agents added another one
C14_Witness ==
    /\ dpc = "returned"
    /\ agents_before # <<>>
    /\ Len(agents) > Len(agents_before)

\* the task contains no primary keyword, no tag, no skill-id token and no
\* name token of the agent
NoMatch(self, t) ==
    \E task_lower \in {LowerStr(t)} :
        /\ CountKeywords(self.primary_keywords, task_lower) = 0
        /\ Cardinality({g \in self.tags : Contains(LowerStr(g), task_lower)}) = 0
        /\ CountSkills(self.skills, task_lower) = 0
        /\ CountNameTokens(FindWords(LowerStr(self.name)), task_lower) = 0

\* C15: when the task matches nothing of any registered agent, send_task
\* without a usable explicit agent invokes the default agent, and the default
\* agent is the agent registered first; no other agent is invoked
C15_NoMatchUsesDefault ==
    (ScoringUsed /\ agents # <<>> /\ \A k \in 1..Len(agents) : NoMatch(agents[k], task))
        => /\ default_agent = Some(agents[1].name)
           /\ agent_info = default_agent
           /\ invoked = <<agents[1].agent>>

\* x is the double nearest to the decimal k/20 (k in 0..20). In units of
\* 2^-55 the decimal is k * 2^53 / 5 = qh * 2^29 + ql + r/5, and x is the
\* nearest double iff it lies within half a unit in the last place of the
\* binade of k/20; the test is scaled by 40 to stay in integers
IsDoubleOfTwentieths(x, k) ==
    LET qh == (k * 16777216) \div 5
        rh == (k * 16777216) % 5
        ql == rh * 107374182 + ((2 * rh) \div 5)
        r == (2 * rh) % 5
        dh == x.h - qh
        D == dh * LimbBase + (x.l - ql)
        e == 40 * D - 8 * r
        halfUlp40 == IF k >= 10 THEN 80 ELSE IF k >= 5 THEN 40 ELSE IF k >= 3 THEN 20
                     ELSE IF k = 2 THEN 10 ELSE 5
    IN IF k = 0 THEN x = F_0_0
       ELSE /\ dh \in {-1, 0, 1}
            /\ D \in -8..8
            /\ e <= halfUlp40
            /\ -e <= halfUlp40

\* C16: the score matches_task gives every registered agent equals the
\* reference clamp01(0.5*K - 0.3*P + 0.2*T + 0.15*S + 0.25*N) of the counts
\* K, P, T, S and N of the agent and the task (the reference is a multiple
\* of 0.05 computed in hundredths, the score is the double nearest to it)
C16_EqualsReference ==
    \A i \in 1..Len(scores) :
        \E reference \in {DecimalScore(DictGet(agents, scores[i].name), task,
                                        AllAgentsKeywords(agents))} :
            /\ reference % 5 = 0
            /\ IsDoubleOfTwentieths(scores[i].score, reference \div 5)

\* the score of the named agent in the list scores of the current call
ScoreOf(name) == (CHOOSE e \in {scores[i] : i \in 1..Len(scores)} : e.name = name).score

\* the two agents of the scenario are registered and a call without a usable
\* explicit agent routes the task "write a blog about X"
BlogPptScenario ==
    /\ ScoringUsed
    /\ Len(agents) = 2
    /\ DictHas(agents, s_blog_agent)
    /\ DictHas(agents, s_ppt_agent)
    /\ DictGet(agents, s_blog_agent).primary_keywords = <<s_blog>>
    /\ DictGet(agents, s_ppt_agent).primary_keywords = <<s_ppt>>
    /\ task = t_write_blog

\* C17: with the keyword sets {blog} and {ppt} and the task "write a blog
\* about X" the score of the blog agent is strictly greater than the score
\* of the ppt agent, the penalty step of the ppt agent's score subtracts 0.3
\* for the hit of "blog" (its score is -0.3 before the clamp and 0.0 after),
\* and send_task invokes the blog agent, whichever was registered first
C17_BlogBeatsPpt ==
    BlogPptScenario =>
        /\ FLess(ScoreOf(s_ppt_agent), ScoreOf(s_blog_agent))
        /\ ScoreOf(s_blog_agent) = F_0_5
        /\ PenaltyLoop(F_0_0, s_ppt_agent, AllAgentsKeywords(agents), LowerStr(task))
              = FNeg(F_0_3)
        /\ MatchesTaskLower_unclamped(DictGet(agents, s_ppt_agent), LowerStr(task),
                                      AllAgentsKeywords(agents)) = FNeg(F_0_3)
        /\ ScoreOf(s_ppt_agent) = F_0_0
        /\ agent_info = Some(s_blog_agent)
        /\ invoked = <<"hblog_only">>

\* the ppt agent was registered first and is the default; the task is
\* awaited at the blog agent
C17_Witness ==
    /\ BlogPptScenario
    /\ agents[1].name = s_ppt_agent
    /\ default_agent = Some(s_ppt_agent)
    /\ spc = "run"

\* blog_agent (keywords blog, article) and ppt_agent (keywords ppt, slides)
\* are the registry and a call without a usable explicit agent routes the
\* task "Create a PPT about Kubernetes"
CreatePptScenario ==
    /\ ScoringUsed
    /\ Len(agents) = 2
    /\ DictHas(agents, s_blog_agent)
    /\ DictHas(agents, s_ppt_agent)
    /\ DictGet(agents, s_blog_agent).primary_keywords = <<s_blog, s_article>>
    /\ DictGet(agents, s_ppt_agent).primary_keywords = <<s_ppt, s_slides>>
    /\ task = t_create_ppt

\* C18: in that scenario select_agent returns ppt_agent, the score of
\* ppt_agent is at least 0.5 and the score of blog_agent is at most 0,
\* whichever of the two is the default agent
C18_PptScenario ==
    CreatePptScenario =>
        /\ agent_info = Some(s_ppt_agent)
        /\ scores[1].name = s_ppt_agent
        /\ FLeq(F_0_5, ScoreOf(s_ppt_agent))
        /\ FLeq(ScoreOf(s_blog_agent), F_0_0)

\* blog_agent is the default agent and the task is awaited at ppt_agent
C18_Witness ==
    /\ CreatePptScenario
    /\ default_agent = Some(s_blog_agent)
    /\ spc = "run"
    /\ invoked = <<"hppt">>

\* the message has a text field and the field is not empty
HasNonEmptyText(m) == m.has_text /\ m.text # <<>>

\* the texts, each but the last followed by one newline
RECURSIVE NewlineJoined(_)
NewlineJoined(texts) ==
    IF texts = <<>> THEN <<>>
    ELSE IF Len(texts) = 1 THEN texts[1]
    ELSE NewlineJoined(SubSeq(texts, 1, Len(texts) - 1)) \o <<"\n">> \o texts[Len(texts)]

\* C19: when the run of the agent returned, the text send_task returns is
\* the texts of the messages that have a non-empty text, in message order,
\* joined by single newlines; a message without text or with an empty text
\* adds nothing (no empty line), no such message at all gives the empty
\* string; the name returned with it is the name of the selected agent
C19_ResponseText ==
    (run_result # None /\ run_result[1].ok) =>
        \E present \in {SelectSeq(run_result[1].messages, HasNonEmptyText)} :
            /\ spc = "returned"
            /\ outcome.kind = "returned"
            /\ outcome.text = NewlineJoined([k \in 1..Len(present) |-> present[k].text])
            /\ (present = <<>>) => (outcome.text = <<>>)
            /\ outcome.name = agent_info[1]

\* a result of four messages, one without text and one with an empty text,
\* was returned as the two texts with one newline between them
C19_Witness ==
    /\ spc = "returned"
    /\ run_result # None
    /\ Len(run_result[1].messages) = 4
    /\ outcome.text = s_a \o <<"\n">> \o s_b

\* C20: two consecutive list_agents calls with no discovery started between
\* them print the same summary (the same agents in the same order with the
\* same name, host, skills and tags), whatever send_task calls were made
\* between the two
C20_ListingIdempotent ==
    (Len(listing) = 2) => (listing[1] = listing[2])

\* list_agents was called twice on a registry of two agents or more
C20_Witness == Len(listing) = 2 /\ Len(listing[2]) >= 2

\* ---------------------------------------------------------------------------
\* keyword variants of a card (C21)

\* the keywords a card declares under one field-name variant: an absent or
\* null attribute declares none
Declared(opt) == IF opt = None THEN <<>> ELSE opt[1]

\* the keywords a card declares as an extra field
DeclaredExtra(agent_card) ==
    IF ItemsHave(agent_card.model_extra, "primaryKeywords")
    THEN ItemsGet(agent_card.model_extra, "primaryKeywords") ELSE <<>>

SeqRange(s) == {s[i] : i \in 1..Len(s)}

\* the places of a card that declare routing keywords: the attribute
\* primary_keywords, the attribute primaryKeywords, the extra field
DeclaredLists(agent_card) ==
    <<Declared(agent_card.primary_keywords), Declared(agent_card.primaryKeywords),
      DeclaredExtra(agent_card)>>

NoDuplicates(s) == \A i, j \in 1..Len(s) : s[i] = s[j] => i = j

\* C21: for every registered agent, (1) when its card declares keywords under
\* both primary_keywords and primaryKeywords, the agent's primary_keywords
\* are the merge of both lists, each keyword once; (2) when exactly one of
\* the attribute primary_keywords, the attribute primaryKeywords and the
\* extra field primaryKeywords declares keywords, these are the agent's
\* primary_keywords; (3) when the card declares none anywhere, the agent is
\* registered with an empty list
C21_KeywordsMerged ==
    \A k \in 1..Len(agents) :
        \E agent_card \in {CardOf(agents[k].host)} :
        \E lists \in {DeclaredLists(agent_card)} :
            /\ (lists[1] # <<>> /\ lists[2] # <<>>)
                 => /\ SeqRange(agents[k].primary_keywords)
                         = SeqRange(lists[1]) \cup SeqRange(lists[2])
                    /\ NoDuplicates(agents[k].primary_keywords)
            /\ \A v \in 1..3 :
                 (lists[v] # <<>> /\ \A w \in 1..3 : w # v => lists[w] = <<>>)
                     => agents[k].primary_keywords = lists[v]
            /\ ((\A v \in 1..3 : lists[v] = <<>>)
                  /\ ~ItemsHave(agent_card.dict, "primaryKeywords"))
                     => agents[k].primary_keywords = <<>>

\* ---------------------------------------------------------------------------
\* name words (C22)

\* the words of an agent name, the underscore separating words as the space
\* does
NameWords(name) == FindWords(ReplaceChar(LowerStr(name), "_", " "))

\* the score of matches_task when the name step runs over NameWords
ScoreByNameWords(self, t, all_agents_keywords) ==
    \* each step is bound once
    The({The({The({The({The({FMax(F_0_0, FMin(s5, F_1_0)) :
        s5 \in {NameLoop(s4, NameWords(self.name), task_lower)}}) :
        s4 \in {SkillLoop(TagLoop(s2, self.tags, task_lower), self.skills, task_lower)}}) :
        s2 \in {IF all_agents_keywords # <<>>
                THEN PenaltyLoop(s1, self.name, all_agents_keywords, task_lower)
                ELSE s1}}) :
        s1 \in {KeywordLoop(F_0_0, self.primary_keywords, task_lower)}}) :
        task_lower \in {LowerStr(t)}})

\* C22: the score of every ranked agent counts 0.25 for each word of its name
\* other than agent, the, a that occurs in the task, the words of a name
\* being separated by underscores as well (blog_agent gains 0.25 from a task
\* containing "blog")
C22_NameWordsScore ==
    ScoringUsed =>
        \E all_agents_keywords \in {AllAgentsKeywords(agents)} :
            \A k \in 1..Len(scores) :
                DictHas(agents, scores[k].name)
                    => scores[k].score
                         = ScoreByNameWords(DictGet(agents, scores[k].name), task,
                                            all_agents_keywords)

\* ---------------------------------------------------------------------------
\* letter case (C23)

\* a change of letter case of one character: "upper" is str.upper(), "swap"
\* is str.swapcase()
RecaseChar(kind, c) ==
    IF \E i \in 1..26 : LowerLetters[i] = c
    THEN UpperLetters[CHOOSE i \in 1..26 : LowerLetters[i] = c]
    ELSE IF kind = "swap" THEN Lower(c) ELSE c

Recase(kind, s) == [i \in 1..Len(s) |-> RecaseChar(kind, s[i])]

CaseKinds == {"upper", "swap"}

\* the parts of the input of matches_task whose letter case is changed
CaseParts == {"task", "keywords", "tags", "skills", "name", "siblings", "all"}

Hit(part, what) == part = what \/ part = "all"

\* the profile with the letter case of a part changed
RecasedProfile(kind, part, self) ==
    [self EXCEPT
       !.primary_keywords =
           IF Hit(part, "keywords") THEN [i \in 1..Len(@) |-> Recase(kind, @[i])] ELSE @,
       !.tags = IF Hit(part, "tags") THEN {Recase(kind, t) : t \in @} ELSE @,
       !.skills = IF Hit(part, "skills")
                  THEN [i \in 1..Len(@) |-> [@[i] EXCEPT !.id = Recase(kind, @)]]
                  ELSE @,
       !.name = IF Hit(part, "name") THEN Recase(kind, @) ELSE @]

\* the sibling mapping with the letter case of its keywords changed and, when
\* the key of the profile follows its name (keyed), the key self_name changed
\* as the name is
RecasedSiblings(kind, part, keyed, self_name, items) ==
    [i \in 1..Len(items) |->
        [name |-> IF keyed /\ Hit(part, "name") /\ items[i].name = self_name
                  THEN Recase(kind, items[i].name) ELSE items[i].name,
         keywords |-> IF Hit(part, "siblings")
                      THEN [j \in 1..Len(items[i].keywords) |->
                              Recase(kind, items[i].keywords[j])]
                      ELSE items[i].keywords]]

\* a call without an explicit agent name has ranked the agents and the
\* selected agent, if any, has not answered yet
JustScored == ScoringUsed /\ agent_name = None /\ run_result = None /\ scores # <<>>

\* every recorded score is the score of a second call, and of a call in
\* which the letter case of any part of the input is changed
CaseInsensitive(keyed) ==
    JustScored =>
        \E items \in {AllAgentsKeywords(agents)} :
            \A k \in 1..Len(scores) :
                \E self \in {DictGet(agents, scores[k].name)} :
                    /\ matches_task(self, task, items) = scores[k].score
                    /\ \A kind \in CaseKinds, part \in CaseParts :
                         matches_task(RecasedProfile(kind, part, self),
                                      IF Hit(part, "task") THEN Recase(kind, task) ELSE task,
                                      RecasedSiblings(kind, part, keyed, self.name, items))
                             = scores[k].score

DefaultIsRegistered ==
    /\ (default_agent = None) <=> (agents = <<>>)
    /\ default_agent # None => DictHas(agents, default_agent[1])

\* C24: in every reachable state default_agent is unset exactly when the
\* registry is empty and, when set, is a key of the registry; no step of
\* discover_all_agents, send_task or list_agents changes a default that is set
C24_DefaultStable ==
    /\ []DefaultIsRegistered
    /\ [][default_agent # None => default_agent' = default_agent]_vars

\* a later discover_all_agents call has added an agent of another name to a
\* registry that had a default
C24_Witness ==
    /\ dpc = "returned"
    /\ default_before # None
    /\ default_agent = default_before
    /\ Len(agents) > Len(agents_before)
    /\ agents[Len(agents)].name # default_agent[1]

\* ---------------------------------------------------------------------------
\* the "no suitable agent" error (C25)

\* send_task raised before it invoked any agent
NoAgentRaised == outcome.kind = "raised" /\ invoked = <<>>

\* C25: on a non-empty registry the selection of send_task is a registered
\* agent, and send_task raises the "no suitable agent" error exactly when the
\* registry is empty: select_agent never falls through to its last return None
C25_NoAgentOnlyWhenEmpty ==
    SendActive =>
        /\ (agent_info = None) <=> (agents = <<>>)
        /\ agent_info # None => DictHas(agents, agent_info[1])
        /\ NoAgentRaised <=> (agents = <<>>)

\* ---------------------------------------------------------------------------
\* an explicit agent name that is not registered (C26)

UnknownNameGiven == SendActive /\ agent_name # None /\ ~DictHas(agents, agent_name[1])

\* C26: a send_task whose explicit agent name is no key of the registry
\* selects the agent that the ranking of the task over the registry selects,
\* as a call without a name does, and invokes it: the unknown name raises
\* nothing
C26_UnknownNameIgnored ==
    UnknownNameGiven =>
        \E sorted \in {SortedScores(agents, task)} :
            /\ scores = sorted
            /\ agent_info = SelectFromScores(agents, default_agent, sorted)
            /\ agent_info # None => invoked = <<DictGet(agents, agent_info[1]).agent>>

\* the name 'nobody' was given on a registry of two agents and the task went
\* to the agent that is not the default
C26_Witness ==
    /\ UnknownNameGiven
    /\ agent_name = Some(s_nobody)
    /\ Len(agents) >= 2
    /\ agent_info # None /\ agent_info # default_agent
    /\ spc = "returned"

\* ---------------------------------------------------------------------------
\* one agent, one run (C27)

\* at most one agent is invoked by a call; a run that settled was the run of
\* one agent; a returned pair names the agent that was invoked, a key of the
\* registry
OneAgentInvoked ==
    SendActive =>
        /\ Len(invoked) <= 1
        /\ run_result # None => Len(invoked) = 1
        /\ outcome.kind = "returned" =>
              /\ Len(invoked) = 1
              /\ DictHas(agents, outcome.name)
              /\ DictGet(agents, outcome.name).agent = invoked[1]

\* C27: every send_task call invokes at most one agent, once: the agent
\* invoked is never replaced during the call, and once its run has returned
\* or raised the call ends without another run; a returned pair carries the
\* name of the agent that was invoked, which is a key of the registry
C27_AtMostOneRun ==
    /\ []OneAgentInvoked
    /\ [][/\ (invoked # <<>> /\ invoked' # <<>>) => invoked' = invoked
          /\ run_result # None => (spc' = "idle" /\ invoked' = <<>> /\ run_result' = None)]_vars

\* a call given an unregistered name was routed by score on a registry of
\* two agents, its run raised, and the call has ended with that failure
C27_Witness ==
    /\ spc = "raised"
    /\ Len(agents) >= 2
    /\ Len(invoked) = 1
    /\ run_result # None /\ ~run_result[1].ok
    /\ agent_name = Some(s_nobody)
    /\ outcome.kind = "raised"

\* a pair was returned by the agent picked by score
C27_WitnessReturned ==
    /\ spc = "returned"
    /\ Len(agents) >= 2
    /\ agent_name = Some(s_nobody)
    /\ outcome.kind = "returned"
    /\ outcome.name = agent_info[1]
    /\ agent_info # default_agent

\* ---------------------------------------------------------------------------
\* the driver loops (C28)

\* a line of the user that interactive_mode routes as a task
RoutedInputs ==
    {u \in {Strip(line) : line \in UserInputs} :
        u # <<>> /\ LowerStr(u) \notin {s_quit, s_list}}

\* what a step of a driver may do: a send_task starts only from the loop,
\* with no other call in progress, for the test task whose turn it is or
\* for the line just typed; the driver leaves the await only when send_task
\* has returned or raised, prints the pair or the error and goes on alike;
\* a turn of the prompt that stays at the prompt routes nothing; the prompt
\* loop ends only from the prompt, not from a send_task
DriverStep ==
    /\ (spc = "idle" /\ spc' # "idle") =>
          /\ driver.pc = "loop" /\ driver'.pc = "send"
          /\ dpc = "idle"
          /\ outcome = NoOutcome /\ invoked = <<>>
          /\ driver.mode = "main" => task' = TestTasks[driver.i]
          /\ driver.mode = "interactive" => task' \in RoutedInputs
    /\ (driver.pc = "send" /\ driver'.pc # "send") =>
          /\ spc \in {"returned", "raised"} /\ spc' = "idle"
          /\ driver'.printed = (IF spc = "raised" THEN "error" ELSE "pair")
          /\ driver.mode = "main" =>
                /\ driver'.i = driver.i + 1
                /\ driver'.pc = (IF driver.i < Len(TestTasks) THEN "loop" ELSE "ended")
          /\ driver.mode = "interactive" => driver'.pc = "loop"
    /\ (driver.pc = "loop" /\ driver'.pc = "loop") => (spc' = "idle" /\ invoked' = <<>>)
    /\ (driver.mode = "interactive" /\ driver.pc # "ended" /\ driver'.pc = "ended") =>
          \/ driver.pc = "discover" /\ driver'.count = Some(0)
          \/ driver.pc = "loop" /\ driver'.ended_by \in {"quit", "interrupt"}

\* the driver awaits the send_task of its i-th task
Awaiting(mode, i) == driver.mode = mode /\ driver.pc = "send" /\ driver.i = i

\* the driver has gone on after its i-th task: main is at the head of its
\* loop for the next test task, or has ended after the last; interactive_mode
\* is back at its prompt
GoneOn(mode, i) ==
    /\ driver.mode = mode
    /\ spc = "idle"
    /\ driver.printed \in {"pair", "error"}
    /\ IF mode = "interactive" THEN driver.pc = "loop"
       ELSE /\ driver.i = i + 1
            /\ driver.pc = (IF i < Len(TestTasks) THEN "loop" ELSE "ended")

\* C28: in main and in interactive_mode the tasks are routed one after
\* another, a send_task starting only after the previous one returned or
\* raised, in the order given; an error raised by a send_task is printed and
\* the driver goes on as after a returned pair: every send_task a driver
\* awaits leads to the head of the loop for the next task (to the end of main
\* after the last test task); the prompt loop ends only on 'quit' or a
\* keyboard interrupt, and an empty line or 'list' routes nothing
C28_TasksInTurn ==
    /\ [][DriverStep]_vars
    /\ \A i \in 1..Len(TestTasks) : Awaiting("main", i) ~> GoneOn("main", i)
    /\ Awaiting("interactive", 1) ~> GoneOn("interactive", 1)

\* main routes its last test task after the send_task of the task before it
\* raised and the error was printed
C28_Witness ==
    /\ driver.mode = "main"
    /\ driver.pc = "send"
    /\ driver.i = Len(TestTasks)
    /\ driver.printed = "error"
    /\ task = TestTasks[Len(TestTasks)]
    /\ spc = "run"

\* interactive_mode is back at its prompt after a send_task that raised
C28_WitnessPrompt ==
    /\ driver.mode = "interactive"
    /\ driver.pc = "loop"
    /\ driver.printed = "error"
    /\ listing # <<>>

\* ---------------------------------------------------------------------------
\* the event stream of an agent (C29, C30)

IsFinal(e) == e.kind = "status-update" /\ e.final

IsWorking(e) == e.kind = "status-update" /\ ~e.final /\ e.state = "working"

FinalIndices(events) == {i \in 1..Len(events) : IsFinal(events[i])}

\* the task of the stream is done: send_and_wait returned or raised
TaskOver == stream.task = "done" \/ stream.task \in StreamErrors

\* the events sent so far begin with a working event that is not final and
\* hold at most one final event, which is the last one sent and ends the
\* stream in completed or failed; a stream that has ended holds its final
\* event
WellFormedStream ==
    \E events \in {stream.events} :
        /\ events # <<>> => IsWorking(events[1])
        /\ Cardinality(FinalIndices(events)) <= 1
        /\ \A i \in FinalIndices(events) :
              /\ i = Len(events)
              /\ stream.pc = "ended"
              /\ events[i].state \in {"completed", "failed"}
        /\ stream.pc = "ended" => FinalIndices(events) = {Len(events)}

\* C29: every event stream of process_a2a_message_streaming starts with a
\* working event that is not final and, once ended, holds exactly one final
\* event, its last, of state completed or failed; the stream of a generator
\* whose client is not initialised ends, and so does every stream once its
\* task is done, whether it returned, failed or timed out
C29_OneFinalEvent ==
    /\ []WellFormedStream
    /\ (stream.pc = "start" /\ ~stream.client) ~> (stream.pc = "ended")
    /\ TaskOver ~> (stream.pc = "ended")

\* a stream has ended in failed after two heartbeats because its task timed
\* out
C29_Witness ==
    /\ stream.pc = "ended"
    /\ stream.task = "TimeoutError"
    /\ Len(stream.events) = 4
    /\ stream.events[4].state = "failed"

\* the streams of the other cases have ended: client not initialised,
\* session not created, task returned
C29_WitnessCases ==
    /\ stream.pc = "ended"
    /\ \/ ~stream.client /\ Len(stream.events) = 2
       \/ stream.client /\ stream.task = "none" /\ Len(stream.events) = 2
       \/ stream.task = "done" /\ stream.events[Len(stream.events)].state = "completed"

ArtifactIndices(events) == {i \in 1..Len(events) : events[i].kind = "artifact-update"}

\* C30: an event stream holds at most one artifact-update; a stream that
\* has ended holds one exactly when it ended in completed, and none when it
\* ended in failed; the artifact-update is followed at once by the final
\* completed event, which carries the text of the artifact (until that event
\* is sent the artifact is the last event and the generator is about to send
\* it); every working event precedes the artifact-update
C30_ArtifactThenCompleted ==
    \E events \in {stream.events} :
        /\ Cardinality(ArtifactIndices(events)) <= 1
        /\ stream.pc = "ended" =>
              /\ (ArtifactIndices(events) # {})
                    <=> (events[Len(events)].state = "completed")
              /\ events[Len(events)].state = "failed" => ArtifactIndices(events) = {}
        /\ \A i \in ArtifactIndices(events) :
              /\ IF i = Len(events) THEN stream.pc = "artifact"
                 ELSE /\ i + 1 = Len(events)
                      /\ IsFinal(events[i + 1])
                      /\ events[i + 1].state = "completed"
                      /\ events[i + 1].text = events[i].text
              /\ \A j \in 1..Len(events) : IsWorking(events[j]) => j < i

\* a stream has ended in completed: two heartbeats, two deltas, then the
\* artifact and the completed event with the joined text
C30_Witness ==
    /\ stream.pc = "ended"
    /\ stream.heartbeat_count = 2
    /\ stream.response_chunks = <<s_a, s_b>>
    /\ Len(stream.events) = 5
    /\ stream.events[4].kind = "artifact-update"
    /\ stream.events[4].text = s_a \o s_b
    /\ stream.events[5].state = "completed"

=============================================================================
